---- MODULE Spec2Model ----
(***************************************************************************)
(* CosinePlateauScheduler (src/src/cosine_plateau_scheduler/scheduler.py)  *)
(* as a state machine: construction compiles the segment table, step()     *)
(* advances last_epoch by one and publishes get_lr() to the optimizer.      *)
(*                                                                         *)
(* Numbers.  Learning rates are Python floats; here a rate is a           *)
(* fixed-point integer (a whole number of rate units), min_lr_ratio is an  *)
(* integer percent, and the cosine factor 0.5*(1+cos(pi*p)) is an integer  *)
(* in 0..CosScale.  A quotient a/b is kept as the pair it is computed from *)
(* and rounded down once, where the code multiplies it into a rate.        *)
(***************************************************************************)
EXTENDS Integers, Sequences, FiniteSets, TLC

(***************************************************************************)
(* Bounds of the model.                                                    *)
(***************************************************************************)
\* total_steps ranges over 1..MaxTotal, warmup_steps over 0..total_steps
MaxTotal == 5
\* plateau_steps holds at most MaxPlateaus descriptors
MaxPlateaus == 2
\* the resume offset last_epoch ranges over -1..MaxResume
MaxResume == 1
\* step() is called until last_epoch reaches total_steps + MaxOver
MaxOver == 2

(***************************************************************************)
(* Fixed-point arithmetic standing for the float arithmetic of the code.   *)
(***************************************************************************)
\* the value 1.0 of a cosine and of a cosine factor
CosScale == 10000
\* math.pi, in units of 1/CosScale
PiScaled == 31416
\* the outcome of a float division by zero (rates are never negative)
ZeroDivisionError == -1

Max(a, b) == IF a >= b THEN a ELSE b
Min(a, b) == IF a <= b THEN a ELSE b

\* cos(x) for x in [0, pi/2], x in units of 1/CosScale: the Taylor series to x^8
CosSeries(x) ==
    LET x2 == (x * x) \div CosScale
        t1 == x2 \div 2
        t2 == (t1 * x2) \div (CosScale * 12)
        t3 == (t2 * x2) \div (CosScale * 30)
        t4 == (t3 * x2) \div (CosScale * 56)
    IN  CosScale - t1 + t2 - t3 + t4

\* math.cos(math.pi * (num / den)) for den > 0: the cosine is even and has
\* period 2*pi, and cos(pi - x) = -cos(x) brings the angle into [0, pi/2]
CosPi(num, den) ==
    LET a == IF num < 0 THEN 0 - num ELSE num
        r == a % (2 * den)
        n == IF r > den THEN 2 * den - r ELSE r
    IN  IF 2 * n = den THEN 0
        ELSE IF 2 * n < den THEN CosSeries((PiScaled * n) \div den)
        ELSE 0 - CosSeries((PiScaled * (den - n)) \div den)

\* a cosine factor without the shift into [0, 1]: math.cos(math.pi * progress)
CosineFactor_unshifted(num, den) ==
    IF den = 0 THEN ZeroDivisionError
    ELSE CosPi(num, den)

\* 0.5 * (1 + math.cos(math.pi * progress)) with progress = num / den
\* (a / 0 raises ZeroDivisionError)
CosineFactor(num, den) ==
    IF den = 0 THEN ZeroDivisionError
    ELSE (CosScale + CosPi(num, den)) \div 2

\* the endpoints swapped: start_lr + (end_lr - start_lr) * cosine_factor
Interpolate_swapped(end_lr, start_lr, cosine_factor) ==
    IF cosine_factor = ZeroDivisionError THEN ZeroDivisionError
    ELSE start_lr + ((end_lr - start_lr) * cosine_factor) \div CosScale

\* end_lr + (start_lr - end_lr) * cosine_factor
Interpolate(end_lr, start_lr, cosine_factor) ==
    IF cosine_factor = ZeroDivisionError THEN ZeroDivisionError
    ELSE end_lr + ((start_lr - end_lr) * cosine_factor) \div CosScale

\* x * (num / den)
TimesQuotient(x, num, den) ==
    IF den = 0 THEN ZeroDivisionError
    ELSE (x * num) \div den

\* int(training_steps * pct / 100) for pct >= 0
PercentOf(training_steps, pct) == (training_steps * pct) \div 100

\* warmup_type.lower()
Lower(s) ==
    CASE s = "LINEAR" -> "linear"
      [] s = "Linear" -> "linear"
      [] OTHER -> s

RECURSIVE SumDurations(_, _)
\* sum(p['end'] - p['start'] for p in regions[:n])
SumDurations(regions, n) ==
    IF n = 0 THEN 0
    ELSE SumDurations(regions, n - 1) + (regions[n].end - regions[n].start)

\* list.insert keeping the list ascending by 'start', after equal keys
InsertByStart(sorted, r) ==
    LET k == Cardinality({i \in 1..Len(sorted) : sorted[i].start <= r.start})
    IN  SubSeq(sorted, 1, k) \o <<r>> \o SubSeq(sorted, k + 1, Len(sorted))

RECURSIVE SortByStart(_)
\* plateau_regions.sort(key=lambda x: x['start']): a stable sort
SortByStart(regions) ==
    IF regions = <<>> THEN <<>>
    ELSE InsertByStart(SortByStart(SubSeq(regions, 1, Len(regions) - 1)),
                       regions[Len(regions)])

(***************************************************************************)
(* Construction: CosinePlateauScheduler.__init__ and _precompute_segments. *)
(***************************************************************************)
\* only the position is validated
InvalidDescriptor_position_only(d) ==
    ~(0 <= d[1] /\ d[1] <= 100)

\* not (0 <= pos_pct <= 100) or not (0 <= dur_pct <= 100)
InvalidDescriptor(d) ==
    \/ ~(0 <= d[1] /\ d[1] <= 100)
    \/ ~(0 <= d[2] /\ d[2] <= 100)

\* the plateau_regions appended by the loop over plateau_steps, in list order
ParseRegions(training_steps, plateau_steps) ==
    [k \in 1..Len(plateau_steps) |->
        LET start_step == PercentOf(training_steps, plateau_steps[k][1])
            duration   == PercentOf(training_steps, plateau_steps[k][2])
        IN  [start |-> start_step, end |-> start_step + duration]]

\* progress is not clamped to [0, 1]
PlateauLr_unclamped(self, i) ==
    LET effective_position ==
            self.plateau_regions[i].start - SumDurations(self.plateau_regions, i - 1)
    IN  IF self.effective_training_steps > 0
        THEN LET cosine_factor ==
                     CosineFactor(effective_position, self.effective_training_steps)
             IN  [g \in 1..Len(self.base_lrs) |->
                     Interpolate(self.min_lrs[g], self.base_lrs[g], cosine_factor)]
        ELSE self.min_lrs

\* the earlier windows are not excised: the position is the window's start
PlateauLr_no_excision(self, i) ==
    LET effective_position == self.plateau_regions[i].start
    IN  IF self.effective_training_steps > 0
        THEN LET progress_num ==
                     Max(0, Min(self.effective_training_steps, effective_position))
                 cosine_factor ==
                     CosineFactor(progress_num, self.effective_training_steps)
             IN  [g \in 1..Len(self.base_lrs) |->
                     Interpolate(self.min_lrs[g], self.base_lrs[g], cosine_factor)]
        ELSE self.min_lrs

\* plateau_lr of window i: the global cosine at the window's effective position
PlateauLr(self, i) ==
    LET effective_position ==
            self.plateau_regions[i].start - SumDurations(self.plateau_regions, i - 1)
    IN  IF self.effective_training_steps > 0
        THEN LET progress_num ==
                     Max(0, Min(self.effective_training_steps, effective_position))
                 cosine_factor ==
                     CosineFactor(progress_num, self.effective_training_steps)
             IN  [g \in 1..Len(self.base_lrs) |->
                     Interpolate(self.min_lrs[g], self.base_lrs[g], cosine_factor)]
        ELSE self.min_lrs

\* plateau_lrs: one plateau_lr per window, in sorted order
PlateauLrs(self) ==
    [i \in 1..Len(self.plateau_regions) |-> PlateauLr(self, i)]

\* the cosine segment runs to the window's end instead of its start
CosineBefore_to_end(self, plateau_lrs, i, current_pos) ==
    LET plateau == self.plateau_regions[i]
    IN  IF current_pos < plateau.start
        THEN << [start     |-> current_pos,
                 end       |-> plateau.end,
                 type      |-> "cosine",
                 start_lrs |-> IF i = 1 THEN self.base_lrs
                               ELSE plateau_lrs[i - 1],
                 end_lrs   |-> plateau_lrs[i]] >>
        ELSE <<>>

\* "Cosine segment before plateau": the segment appended before window i
CosineBefore(self, plateau_lrs, i, current_pos) ==
    LET plateau == self.plateau_regions[i]
    IN  IF current_pos < plateau.start
        THEN << [start     |-> current_pos,
                 end       |-> plateau.start,
                 type      |-> "cosine",
                 start_lrs |-> IF i = 1 THEN self.base_lrs
                               ELSE plateau_lrs[i - 1],
                 end_lrs   |-> plateau_lrs[i]] >>
        ELSE <<>>

\* the plateau segment ends one step early
PlateauSegment_short(self, plateau_lrs, i) ==
    LET plateau == self.plateau_regions[i]
    IN  << [start |-> plateau.start,
            end   |-> plateau.end - 1,
            type  |-> "plateau",
            lrs   |-> plateau_lrs[i]] >>

\* "Plateau segment": the segment appended for window i
PlateauSegment(self, plateau_lrs, i) ==
    LET plateau == self.plateau_regions[i]
    IN  << [start |-> plateau.start,
            end   |-> plateau.end,
            type  |-> "plateau",
            lrs   |-> plateau_lrs[i]] >>

\* "Final cosine segment after last plateau"
FinalSegment(self, plateau_lrs, current_pos) ==
    IF current_pos < self.training_steps
    THEN << [start     |-> current_pos,
             end       |-> self.training_steps,
             type      |-> "cosine",
             start_lrs |-> IF plateau_lrs # <<>>
                           THEN plateau_lrs[Len(plateau_lrs)]
                           ELSE self.base_lrs,
             end_lrs   |-> self.min_lrs] >>
    ELSE <<>>

RECURSIVE BuildSegments(_, _, _, _)
\* the segments appended by the loop over plateau_regions from window i on,
\* then the final cosine segment
BuildSegments(self, plateau_lrs, i, current_pos) ==
    IF i > Len(self.plateau_regions)
    THEN FinalSegment(self, plateau_lrs, current_pos)
    ELSE CosineBefore(self, plateau_lrs, i, current_pos)
         \o PlateauSegment(self, plateau_lrs, i)
         \o BuildSegments(self, plateau_lrs, i + 1, self.plateau_regions[i].end)

\* self.segments after _precompute_segments()
_precompute_segments(self) ==
    BuildSegments(self, PlateauLrs(self), 1, 0)

\* whether a rate vector holds the outcome of a division by zero
Raised(lrs) == \E g \in 1..Len(lrs) : lrs[g] = ZeroDivisionError

\* the exception __init__ raises before super().__init__, or "None"
InitError(args) ==
    IF Lower(args.warmup_type) # "linear" THEN "ValueError"
    ELSE IF args.plateau_steps # <<>>
            /\ \E k \in 1..Len(args.plateau_steps) :
                   InvalidDescriptor(args.plateau_steps[k])
    THEN "ValueError"
    ELSE "None"

\* the object's fields set by __init__ before super().__init__
InitFields(optimizer, args) ==
    LET base_lrs == IF args.base_lr = <<>> THEN optimizer
                    ELSE [g \in 1..Len(optimizer) |-> args.base_lr[1]]
        training_steps == args.total_steps - args.warmup_steps
        min_lrs == [g \in 1..Len(base_lrs) |->
                        (base_lrs[g] * args.min_lr_ratio) \div 100]
        plateau_regions ==
            IF args.plateau_steps # <<>>
            THEN SortByStart(ParseRegions(training_steps, args.plateau_steps))
            ELSE <<>>
        total_plateau_duration ==
            IF args.plateau_steps # <<>>
            THEN SumDurations(plateau_regions, Len(plateau_regions))
            ELSE 0
        fields ==
            [total_steps |-> args.total_steps,
             warmup_steps |-> args.warmup_steps,
             min_lr_ratio |-> args.min_lr_ratio,
             warmup_type |-> Lower(args.warmup_type),
             base_lrs |-> base_lrs,
             training_steps |-> training_steps,
             min_lrs |-> min_lrs,
             plateau_regions |-> plateau_regions,
             total_plateau_duration |-> total_plateau_duration,
             effective_training_steps |-> training_steps - total_plateau_duration]
    IN  IF args.plateau_steps # <<>>
        THEN fields @@ [segments |-> _precompute_segments(fields)]
        ELSE fields @@ [segments |->
                          << [start     |-> 0,
                              end       |-> training_steps,
                              type      |-> "cosine",
                              start_lrs |-> base_lrs,
                              end_lrs   |-> min_lrs] >>]

(***************************************************************************)
(* The step evaluator: _get_warmup_lr, _get_cosine_lr, get_lr.             *)
(***************************************************************************)
\* the ramp counts from one: base_lr * ((step + 1) / warmup_steps)
_get_warmup_lr_from_one(self, step, base_lr) ==
    IF step >= self.warmup_steps THEN base_lr
    ELSE IF self.warmup_steps = 0 THEN base_lr
    ELSE TimesQuotient(base_lr, step + 1, self.warmup_steps)

_get_warmup_lr(self, step, base_lr) ==
    IF step >= self.warmup_steps THEN base_lr
    ELSE IF self.warmup_steps = 0 THEN base_lr
    ELSE TimesQuotient(base_lr, step, self.warmup_steps)

\* the rate of one matched segment
\* step_in_segment counted back from the segment's end
SegmentLr_from_end(segment, adjusted_step, param_group_idx) ==
    IF segment.type = "plateau"
    THEN segment.lrs[param_group_idx]
    ELSE LET segment_length == segment.end - segment.start
         IN  IF segment_length <= 0
             THEN segment.start_lrs[param_group_idx]
             ELSE Interpolate(segment.end_lrs[param_group_idx],
                              segment.start_lrs[param_group_idx],
                              CosineFactor(segment.end - adjusted_step,
                                           segment_length))

\* the rates of the first group read for every group
SegmentLr_first_group(segment, adjusted_step, param_group_idx) ==
    IF segment.type = "plateau"
    THEN segment.lrs[1]
    ELSE LET segment_length == segment.end - segment.start
         IN  IF segment_length <= 0
             THEN segment.start_lrs[1]
             ELSE Interpolate(segment.end_lrs[1],
                              segment.start_lrs[1],
                              CosineFactor(adjusted_step - segment.start,
                                           segment_length))

SegmentLr(segment, adjusted_step, param_group_idx) ==
    IF segment.type = "plateau"
    THEN segment.lrs[param_group_idx]
    ELSE LET segment_length == segment.end - segment.start
         IN  IF segment_length <= 0
             THEN segment.start_lrs[param_group_idx]
             ELSE Interpolate(segment.end_lrs[param_group_idx],
                              segment.start_lrs[param_group_idx],
                              CosineFactor(adjusted_step - segment.start,
                                           segment_length))

\* the containment test excludes the segment's first step
Matching_exclusive_start(segments, adjusted_step) ==
    {k \in 1..Len(segments) :
        segments[k].start < adjusted_step /\ adjusted_step < segments[k].end}

\* the containment test includes the segment's end
Matching_inclusive_end(segments, adjusted_step) ==
    {k \in 1..Len(segments) :
        segments[k].start <= adjusted_step /\ adjusted_step <= segments[k].end}

\* the segments whose [start, end) holds adjusted_step, by table index
Matching(segments, adjusted_step) ==
    {k \in 1..Len(segments) :
        segments[k].start <= adjusted_step /\ adjusted_step < segments[k].end}

\* the fallback returns the base rate
_get_cosine_lr_base_fallback(self, step, param_group_idx) ==
    LET adjusted_step == step - self.warmup_steps
        hits == Matching(self.segments, adjusted_step)
    IN  IF hits # {}
        THEN LET first == CHOOSE k \in hits : \A j \in hits : k <= j
             IN  SegmentLr(self.segments[first], adjusted_step, param_group_idx)
        ELSE self.base_lrs[param_group_idx]

\* the for loop returns at the first matching segment, else the fallback
_get_cosine_lr(self, step, param_group_idx) ==
    LET adjusted_step == step - self.warmup_steps
        hits == Matching(self.segments, adjusted_step)
    IN  IF hits # {}
        THEN LET first == CHOOSE k \in hits : \A j \in hits : k <= j
             IN  SegmentLr(self.segments[first], adjusted_step, param_group_idx)
        ELSE self.min_lrs[param_group_idx]

\* the ramp computed in place up to and including warmup_steps, unguarded
get_lr_inline_ramp(self) ==
    IF self.last_epoch < 0 THEN self.base_lrs
    ELSE LET step == self.last_epoch
         IN  IF step <= self.warmup_steps
             THEN [g \in 1..Len(self.base_lrs) |->
                      TimesQuotient(self.base_lrs[g], step, self.warmup_steps)]
             ELSE [g \in 1..Len(self.base_lrs) |->
                      _get_cosine_lr(self, step, g)]

\* the pre-training sentinel also taken at step 0: last_epoch <= 0
get_lr_sentinel_at_zero(self) ==
    IF self.last_epoch <= 0 THEN self.base_lrs
    ELSE LET step == self.last_epoch
         IN  IF step < self.warmup_steps
             THEN [g \in 1..Len(self.base_lrs) |->
                      _get_warmup_lr(self, step, self.base_lrs[g])]
             ELSE [g \in 1..Len(self.base_lrs) |->
                      _get_cosine_lr(self, step, g)]

get_lr(self) ==
    IF self.last_epoch < 0 THEN self.base_lrs
    ELSE LET step == self.last_epoch
         IN  IF step < self.warmup_steps
             THEN [g \in 1..Len(self.base_lrs) |->
                      _get_warmup_lr(self, step, self.base_lrs[g])]
             ELSE [g \in 1..Len(self.base_lrs) |->
                      _get_cosine_lr(self, step, g)]

(***************************************************************************)
(* The scheduler driver.  The base class LRScheduler is not part of the    *)
(* repository's sources; its constructor and step() follow the design's    *)
(* driver: construction seeds the current step from the resume offset and  *)
(* publishes the rate of that step, step() advances by one and publishes.  *)
(***************************************************************************)
\* super().__init__(optimizer, last_epoch=last_epoch): seed the current step
LRScheduler_init(fields, last_epoch) ==
    LET seeded == fields @@ [last_epoch |-> last_epoch]
    IN  seeded @@ [_last_lr |-> get_lr(seeded)]

\* step() that also takes the published rates as the new base rates
LRScheduler_step_rebase(self) ==
    LET advanced == [self EXCEPT !.last_epoch = @ + 1]
    IN  [advanced EXCEPT !._last_lr = get_lr(advanced),
                         !.base_lrs = get_lr(advanced)]

\* step(): advance by one and evaluate the rate of the new step
LRScheduler_step(self) ==
    LET advanced == [self EXCEPT !.last_epoch = @ + 1]
    IN  [advanced EXCEPT !._last_lr = get_lr(advanced)]

\* the base rates returned instead of the cached ones
get_last_lr_base(self) == self.base_lrs

get_last_lr(self) == self._last_lr

(***************************************************************************)
(* Inputs.                                                                 *)
(***************************************************************************)
\* optimizer.param_groups[g]['lr'] before construction
InitialOptimizer == <<6000, 600>>

\* (position_percent, duration_percent) pairs that __init__ accepts
Descriptors == {<<20, 40>>, <<40, 40>>, <<60, 20>>, <<100, 40>>, <<0, 100>>}
\* pairs that __init__ rejects
BadDescriptors == {<<150, 20>>, <<50, 150>>, <<-10, 20>>}

PlateauLists(D) == UNION {[1..n -> D] : n \in 0..MaxPlateaus}

\* min_lr_ratio, in percent
Ratios == {0, 50, 100}

WarmupTypes == {"linear", "Linear", "cosine", "invalid"}

\* every accepted shape of schedule, from every resume offset
ScheduleArgs ==
    {a \in [total_steps   : 1..MaxTotal,
            warmup_steps  : 0..MaxTotal,
            base_lr       : {<<>>},
            min_lr_ratio  : Ratios,
            warmup_type   : {"linear"},
            plateau_steps : PlateauLists(Descriptors),
            last_epoch    : -1..MaxResume] :
        a.warmup_steps <= a.total_steps}

\* the arguments validation reads, and an explicit base_lr
ValidationArgs ==
    [total_steps   : {MaxTotal},
     warmup_steps  : {1},
     base_lr       : {<<>>, <<400>>},
     min_lr_ratio  : {50},
     warmup_type   : WarmupTypes,
     plateau_steps : PlateauLists(Descriptors \cup BadDescriptors),
     last_epoch    : {-1}]

Args == ScheduleArgs \cup ValidationArgs

(***************************************************************************)
(* State.                                                                  *)
(***************************************************************************)
VARIABLES
    phase,      \* "Uninitialized", "Active", "Failed" (the constructor raised)
                \* or "Error" (step() raised)
    error,      \* the exception raised, or "None"
    args,       \* the constructor's arguments
    self,       \* the scheduler object's fields
    optimizer,  \* optimizer.param_groups[g]['lr']
    nsteps,     \* how many times the caller has called step()
    returned    \* what the caller's last call returned

vars == <<phase, error, args, self, optimizer, nsteps, returned>>

NoObject == <<>>
None == <<>>

Init ==
    /\ phase = "Uninitialized"
    /\ error = "None"
    /\ args = None
    /\ self = NoObject
    /\ optimizer = InitialOptimizer
    /\ nsteps = 0
    /\ returned = None

\* the exception the whole constructor raises for these arguments, or "None"
ConstructError(opt, a) ==
    IF InitError(a) # "None" THEN InitError(a)
    ELSE LET fields == InitFields(opt, a)
         IN  IF \/ \E k \in 1..Len(fields.segments) :
                      /\ fields.segments[k].type = "plateau"
                      /\ Raised(fields.segments[k].lrs)
                \/ Raised(LRScheduler_init(fields, a.last_epoch)._last_lr)
             THEN "ZeroDivisionError"
             ELSE "None"

\* the constructor's effect for the arguments a
ConstructWith(a) ==
    /\ args' = a
    /\ nsteps' = 0
    /\ returned' = None
    /\ error' = ConstructError(optimizer, a)
    /\ IF ConstructError(optimizer, a) # "None"
       THEN /\ phase' = "Failed"
            /\ UNCHANGED <<self, optimizer>>
       ELSE /\ phase' = "Active"
            /\ self' = LRScheduler_init(InitFields(optimizer, a), a.last_epoch)
            /\ optimizer' = self'._last_lr

\* scheduler = CosinePlateauScheduler(optimizer, **a)
Construct ==
    /\ phase = "Uninitialized"
    /\ \E a \in Args : ConstructWith(a)

\* scheduler.step()
Step ==
    /\ phase = "Active"
    /\ self.last_epoch < self.total_steps + MaxOver
    /\ nsteps' = nsteps + 1
    /\ returned' = None
    /\ UNCHANGED args
    /\ IF Raised(get_lr([self EXCEPT !.last_epoch = @ + 1]))
       THEN /\ phase' = "Error"
            /\ error' = "ZeroDivisionError"
            /\ self' = [self EXCEPT !.last_epoch = @ + 1]
            /\ UNCHANGED optimizer
       ELSE /\ self' = LRScheduler_step(self)
            /\ optimizer' = self'._last_lr
            /\ UNCHANGED <<phase, error>>

\* scheduler.get_last_lr()
GetLastLr ==
    /\ phase = "Active"
    /\ returned' = get_last_lr(self)
    /\ UNCHANGED <<phase, error, args, self, optimizer, nsteps>>

Next ==
    \/ Construct
    \/ Step
    \/ GetLastLr

Spec == Init /\ [][Next]_vars

\* a call of step(), told by its guard and its count: Step is the one
\* action that adds to nsteps, and it can be taken in every state that
\* satisfies its guard, so that StepCalled is enabled when Step is and a
\* step of the scheduler is a StepCalled step exactly when it is a Step step
StepCalled ==
    /\ phase = "Active"
    /\ self.last_epoch < self.total_steps + MaxOver
    /\ nsteps' = nsteps + 1

\* the training loop keeps calling step(): a step() that can be taken is
\* eventually taken
FairSpec == Spec /\ WF_nsteps(StepCalled)

(***************************************************************************)
(* Vocabulary of the properties.                                           *)
(***************************************************************************)
\* the tolerance of a rate comparison (1e-6 in the tests): one rate unit
Epsilon == 1

\* the rate units two roundings can lose: a rate is computed with at most
\* two of them, the held rate of a plateau and the interpolation from it
RoundingSlack == 2

Active == phase = "Active"

\* lr(s): the rates the evaluator yields at step s
LrAt(s) == get_lr([self EXCEPT !.last_epoch = s])

\* training_steps = total_steps - warmup_steps, from the arguments
TrainingSteps == args.total_steps - args.warmup_steps

\* the window [start, end) of the k-th descriptor given, as sets of offsets
WindowStart(k) == (TrainingSteps * args.plateau_steps[k][1]) \div 100
WindowEnd(k) ==
    WindowStart(k) + (TrainingSteps * args.plateau_steps[k][2]) \div 100
Window(k) == WindowStart(k)..(WindowEnd(k) - 1)

Descriptor == 1..Len(args.plateau_steps)
Group == 1..Len(self.base_lrs)

\* the window of descriptor k shares no step with another descriptor's window
Apart(k) == \A j \in Descriptor \ {k} : Window(j) \cap Window(k) = {}

RECURSIVE DurationsUpTo(_)
\* the summed durations of the windows of the first n descriptors
DurationsUpTo(n) ==
    IF n = 0 THEN 0
    ELSE DurationsUpTo(n - 1) + (WindowEnd(n) - WindowStart(n))

\* the offset into the training phase of the current step
Adjusted == self.last_epoch - self.warmup_steps

\* min_lr = base_lr * min_lr_ratio of group g
MinLrOf(g) == (self.base_lrs[g] * args.min_lr_ratio) \div 100

RECURSIVE StepTimes(_, _)
\* the scheduler object after n calls of step()
StepTimes(scheduler, n) ==
    IF n = 0 THEN scheduler
    ELSE StepTimes(LRScheduler_step(scheduler), n - 1)

\* the same configuration constructed from scratch
FromScratch == LRScheduler_init(InitFields(InitialOptimizer, args), -1)

\* the identifiers of the linear shape, in any case
IsLinearShape(w) == w \in {"linear", "Linear", "LINEAR"}

OutOfRange(d) == d[1] < 0 \/ d[1] > 100 \/ d[2] < 0 \/ d[2] > 100

Rejectable ==
    \/ \E k \in Descriptor : OutOfRange(args.plateau_steps[k])
    \/ ~IsLinearShape(args.warmup_type)

\* the segments are contiguous from 0 to training_steps
SegmentsTile ==
    /\ Len(self.segments) >= 1
    /\ self.segments[1].start = 0
    /\ self.segments[Len(self.segments)].end = TrainingSteps
    /\ \A k \in 1..Len(self.segments) :
          self.segments[k].start <= self.segments[k].end
    /\ \A k \in 2..Len(self.segments) :
          self.segments[k].start = self.segments[k - 1].end

\* the windows, as the compiler walks them, follow one another within
\* training_steps
WindowsInOrder ==
    /\ \A i \in 1..Len(self.plateau_regions) :
          self.plateau_regions[i].end <= TrainingSteps
    /\ \A i \in 2..Len(self.plateau_regions) :
          self.plateau_regions[i - 1].end <= self.plateau_regions[i].start

\* the fields construction fixes: the configuration and the compiled table
Configuration(scheduler) ==
    [f \in {"total_steps", "warmup_steps", "min_lr_ratio", "warmup_type",
            "base_lrs", "training_steps", "min_lrs", "plateau_regions",
            "total_plateau_duration", "effective_training_steps", "segments"}
        |-> scheduler[f]]

\* the windows in ascending start order, as the scheduler keeps them
SortedWindow == 1..Len(self.plateau_regions)

RECURSIVE EarlierDurations(_)
\* the summed durations of the first n windows in ascending start order
EarlierDurations(n) ==
    IF n = 0 THEN 0
    ELSE EarlierDurations(n - 1)
            + (self.plateau_regions[n].end - self.plateau_regions[n].start)

\* training_steps less the durations of all the windows, from the arguments
EffectiveTrainingSteps == TrainingSteps - DurationsUpTo(Len(args.plateau_steps))

\* the start of window i less the durations of the windows before it,
\* clamped to 0..effective_training_steps: the numerator of p
ExcludedPosition(i) ==
    Max(0, Min(EffectiveTrainingSteps,
               self.plateau_regions[i].start - EarlierDurations(i - 1)))

\* min_lr + (base_lr - min_lr) * 0.5 * (1 + cos(pi * num / den)) of group g
GlobalCosine(g, num, den) ==
    MinLrOf(g) + ((self.base_lrs[g] - MinLrOf(g))
                     * ((CosScale + CosPi(num, den)) \div 2)) \div CosScale

\* the plateau segments of the table, in table order
PlateauSegments == SelectSeq(self.segments, LAMBDA sg : sg.type = "plateau")

\* |x|
Abs(x) == IF x < 0 THEN -x ELSE x

\* the adjusted steps looked up: from before the table to past every end
AdjustedSteps == -1..(2 * TrainingSteps + 1)

\* the index of the segment the first-match linear scan selects, 0 if none
LinearScan(segments, x) ==
    LET hits == Matching(segments, x)
    IN  IF hits = {} THEN 0 ELSE CHOOSE k \in hits : \A j \in hits : k <= j

RECURSIVE Bisect(_, _, _, _)
\* the bisection by segment start: the number of segments that it places
\* at or before x, between lo and hi
Bisect(segments, x, lo, hi) ==
    IF lo >= hi THEN lo
    ELSE LET mid == (lo + hi) \div 2
         IN  IF x < segments[mid + 1].start
             THEN Bisect(segments, x, lo, mid)
             ELSE Bisect(segments, x, mid + 1, hi)

\* the index of the segment a binary search by start selects: the last
\* segment with start <= x, if x < its end; 0 if none
BinarySearch(segments, x) ==
    LET k == Bisect(segments, x, 0, Len(segments))
    IN  IF k > 0 /\ x < segments[k].end THEN k ELSE 0

\* the rate of group g the binary search yields at adjusted step x
BinarySearchLr(x, g) ==
    LET k == BinarySearch(self.segments, x)
    IN  IF k = 0 THEN self.min_lrs[g] ELSE SegmentLr(self.segments[k], x, g)

\* both lookups select the same segment at every adjusted step of the
\* table as construction leaves it, and the published rate of a training
\* step is the one the binary search yields
LookupsAgree ==
    /\ nsteps = 0 =>
          \A x \in AdjustedSteps :
              LinearScan(self.segments, x) = BinarySearch(self.segments, x)
    /\ self.last_epoch >= self.warmup_steps =>
          \A g \in Group : optimizer[g] = BinarySearchLr(Adjusted, g)

\* each window, as the compiler walks them, starts at or after the end of
\* the window before it
WindowsFollow ==
    \A i \in 2..Len(self.plateau_regions) :
        self.plateau_regions[i - 1].end <= self.plateau_regions[i].start

\* a step() call made once the warm-up is over leaves no group's published
\* rate higher than it was
StepDoesNotRaise ==
    (/\ phase = "Active" /\ phase' = "Active"
     /\ nsteps' = nsteps + 1
     /\ self.last_epoch >= self.warmup_steps)
        => \A g \in Group : optimizer'[g] <= optimizer[g]

\* the steps StepCalled describes are the steps of Step
StepCalledIsStep == [][StepCalled <=> Step]_vars

\* every group's published rate is its min_lr
AtFloor == \A g \in Group : optimizer[g] = MinLrOf(g)

(***************************************************************************)
(* C1 (as stated): at every step s in [0, total_steps), warm-up included,  *)
(* the rate of each group is at least min_lr = base_lr * min_lr_ratio, up  *)
(* to epsilon.                                                              *)
(***************************************************************************)
C1_FloorFromStepZero ==
    (Active /\ 0 <= self.last_epoch /\ self.last_epoch < self.total_steps)
    => \A g \in Group :
          self._last_lr[g] + Epsilon
              >= (self.base_lrs[g] * args.min_lr_ratio) \div 100

(***************************************************************************)
(* C1 (amended): at every step s in [warmup_steps, total_steps) the rate   *)
(* of each group is at least min_lr = base_lr * min_lr_ratio, up to        *)
(* epsilon.                                                                *)
(***************************************************************************)
C1_FloorAfterWarmup ==
    (Active /\ self.warmup_steps <= self.last_epoch
            /\ self.last_epoch < self.total_steps)
    => \A g \in Group :
          self._last_lr[g] + Epsilon
              >= (self.base_lrs[g] * args.min_lr_ratio) \div 100

\* a step of the decay, reached by step(), whose rate is strictly between
\* the floor and the base rate
C1_Witness ==
    /\ Active /\ nsteps > 0
    /\ self.warmup_steps <= self.last_epoch
    /\ self.last_epoch < self.total_steps
    /\ args.min_lr_ratio = 50
    /\ args.plateau_steps # <<>>
    /\ \A g \in Group : /\ self._last_lr[g] > self.min_lrs[g]
                        /\ self._last_lr[g] < self.base_lrs[g]

(***************************************************************************)
(* C2 (as stated): for every descriptor, overlapping windows included, all *)
(* steps warmup_steps + a with a in its window [start, end) yield the same *)
(* rate: the rate at any step of the window is the rate at its first step. *)
(***************************************************************************)
C2_FlatInEveryWindow ==
    Active =>
        \A k \in Descriptor :
            Adjusted \in Window(k)
            => self._last_lr = LrAt(self.warmup_steps + WindowStart(k))

(***************************************************************************)
(* C2 (amended): for every descriptor whose window shares no step with     *)
(* the window of another descriptor, all steps warmup_steps + a with a in  *)
(* its window yield the same rate.                                          *)
(***************************************************************************)
C2_FlatInWindowsApart ==
    Active =>
        \A k \in Descriptor :
            (Apart(k) /\ Adjusted \in Window(k))
            => self._last_lr = LrAt(self.warmup_steps + WindowStart(k))

\* a later step of a window apart from the others, between two descriptors'
\* windows, held above the floor
C2_Witness ==
    /\ Active /\ nsteps > 0
    /\ Len(args.plateau_steps) = 2
    /\ \E k \in Descriptor :
          /\ Apart(k)
          /\ Adjusted \in Window(k)
          /\ Adjusted > WindowStart(k)
          /\ self._last_lr[1] > self.min_lrs[1]
          /\ self._last_lr[1] < self.base_lrs[1]

(***************************************************************************)
(* C3 (as stated): for every accepted configuration the rate at            *)
(* step = warmup_steps equals base_lr for every group.                      *)
(***************************************************************************)
C3_BaseRateAtWarmupEnd ==
    (Active /\ self.last_epoch = self.warmup_steps)
    => self._last_lr = self.base_lrs

(***************************************************************************)
(* C3 (amended): for every accepted configuration with training_steps > 0  *)
(* whose plateau durations sum to less than training_steps, the rate at    *)
(* step = warmup_steps equals base_lr for every group.                      *)
(***************************************************************************)
C3_BaseRateAtWarmupEndOfDecay ==
    (Active /\ self.last_epoch = self.warmup_steps
            /\ TrainingSteps > 0
            /\ DurationsUpTo(Len(args.plateau_steps)) < TrainingSteps)
    => self._last_lr = self.base_lrs

\* the step after the last warm-up step, with a window starting at offset 0
C3_Witness ==
    /\ Active /\ nsteps > 0
    /\ self.warmup_steps > 0
    /\ self.last_epoch = self.warmup_steps
    /\ TrainingSteps > 0
    /\ DurationsUpTo(Len(args.plateau_steps)) < TrainingSteps
    /\ \E k \in Descriptor : WindowStart(k) = 0 /\ WindowEnd(k) > 0
    /\ args.min_lr_ratio = 0
    /\ self._last_lr = self.base_lrs

(***************************************************************************)
(* C4: at every step s with 0 <= s < warmup_steps the rate of each group   *)
(* is base_lr * s / warmup_steps (rounded down to a rate unit), it is 0 at *)
(* s = 0 and strictly above the rate of step s - 1 otherwise.               *)
(***************************************************************************)
C4_LinearWarmup ==
    (Active /\ 0 <= self.last_epoch /\ self.last_epoch < self.warmup_steps)
    => \A g \in Group :
          /\ self._last_lr[g] * args.warmup_steps
                 <= self.base_lrs[g] * self.last_epoch
          /\ self.base_lrs[g] * self.last_epoch
                 < (self._last_lr[g] + 1) * args.warmup_steps
          /\ self.last_epoch = 0 => self._last_lr[g] = 0
          /\ self.last_epoch > 0
                 => LrAt(self.last_epoch - 1)[g] < self._last_lr[g]

\* a warm-up step after two earlier ones, reached by step()
C4_Witness ==
    /\ Active /\ nsteps > 2
    /\ self.last_epoch = 2
    /\ self.last_epoch < self.warmup_steps
    /\ self._last_lr[2] > 0

(***************************************************************************)
(* C5: at every step s >= total_steps the rate of each group equals its    *)
(* floor min_lr = base_lr * min_lr_ratio, also when a plateau window ends  *)
(* past training_steps.                                                     *)
(***************************************************************************)
C5_FloorPastTheEnd ==
    (Active /\ self.last_epoch >= self.total_steps)
    => \A g \in Group :
          self._last_lr[g] = (self.base_lrs[g] * args.min_lr_ratio) \div 100

\* a step past the end inside a plateau window that runs past training_steps
C5_Witness ==
    /\ Active /\ nsteps > 0
    /\ self.last_epoch >= self.total_steps
    /\ args.min_lr_ratio = 50
    /\ DurationsUpTo(Len(args.plateau_steps)) < TrainingSteps
    /\ \E k \in Descriptor : /\ Adjusted \in Window(k)
                             /\ WindowEnd(k) > TrainingSteps

(***************************************************************************)
(* C6: for every k >= 1, a scheduler constructed with resume offset k - 1  *)
(* and stepped once publishes the rates that a scheduler of the same       *)
(* configuration, constructed with the default offset -1 and stepped k     *)
(* times, publishes.                                                        *)
(***************************************************************************)
C6_ResumeEquivalence ==
    (Active /\ args.last_epoch >= 0 /\ nsteps = 1)
    => self._last_lr = StepTimes(FromScratch, args.last_epoch + 1)._last_lr

C8_NoErrorAfterConstruction ==
    /\ phase # "Error"
    /\ (phase # "Uninitialized" /\ ~Rejectable) => (Active /\ error = "None")

\* steps past the end of a schedule with no training step, zero-duration
\* plateaus and two windows on the same offsets
C8_Witness ==
    /\ Active /\ error = "None"
    /\ args.warmup_steps = args.total_steps
    /\ Len(args.plateau_steps) = 2
    /\ \A k \in Descriptor : WindowStart(k) = WindowEnd(k)
    /\ nsteps > args.total_steps + 1
    /\ self.last_epoch > args.total_steps

(***************************************************************************)
(* C9: with no plateau descriptors the segment table is the one cosine     *)
(* segment [0, training_steps) from base_lrs to min_lrs, and at every step *)
(* s in [warmup_steps, total_steps) the rate of each group is              *)
(* min_lr + (base_lr - min_lr) * 0.5 * (1 + cos(pi * (s - warmup_steps) /  *)
(* training_steps)): base_lr at s = warmup_steps, and min_lr at            *)
(* s = total_steps.                                                         *)
(***************************************************************************)
C9_NoPlateauReduction ==
    (Active /\ args.plateau_steps = <<>>) =>
        /\ self.segments =
               << [start     |-> 0,
                   end       |-> TrainingSteps,
                   type      |-> "cosine",
                   start_lrs |-> self.base_lrs,
                   end_lrs   |-> [g \in Group |-> MinLrOf(g)]] >>
        /\ (args.warmup_steps <= self.last_epoch
            /\ self.last_epoch < args.total_steps)
           => \A g \in Group :
                 /\ self._last_lr[g] =
                        MinLrOf(g)
                        + ((self.base_lrs[g] - MinLrOf(g))
                           * ((CosScale + CosPi(Adjusted, TrainingSteps)) \div 2))
                          \div CosScale
                 /\ Adjusted = 0 => self._last_lr[g] = self.base_lrs[g]
        /\ self.last_epoch = args.total_steps
           => \A g \in Group : self._last_lr[g] = MinLrOf(g)

\* a step inside the single cosine descent, strictly between its ends
C9_Witness ==
    /\ Active /\ nsteps > 0
    /\ args.plateau_steps = <<>>
    /\ args.min_lr_ratio = 50
    /\ args.warmup_steps > 0
    /\ args.warmup_steps < self.last_epoch
    /\ self.last_epoch < args.total_steps
    /\ \A g \in Group : /\ self._last_lr[g] > MinLrOf(g)
                        /\ self._last_lr[g] < self.base_lrs[g]

(***************************************************************************)
(* C10 (as stated): for every accepted configuration the segments are      *)
(* contiguous (each starts where the one before it ends), so pairwise      *)
(* non-overlapping and ascending by start, and cover exactly               *)
(* [0, training_steps).                                                     *)
(***************************************************************************)
C10_SegmentsTileAlways == Active => SegmentsTile

(***************************************************************************)
(* C10 (amended): for every accepted configuration whose plateau windows,  *)
(* in the order the compiler walks them (ascending start, ties in list     *)
(* order), each start at or after the end of the window before and end at  *)
(* or before training_steps, the segments are contiguous, pairwise         *)
(* non-overlapping, ascending by start, and cover exactly                  *)
(* [0, training_steps).                                                     *)
(***************************************************************************)
C10_SegmentsTileWhenWindowsInOrder ==
    (Active /\ WindowsInOrder) => SegmentsTile

\* a table of two plateau segments with cosine segments around them
C10_Witness ==
    /\ Active
    /\ WindowsInOrder
    /\ Len(self.plateau_regions) = 2
    /\ Len(self.segments) >= 4
    /\ \E k \in 1..Len(self.segments) :
          /\ self.segments[k].type = "plateau"
          /\ self.segments[k].end - self.segments[k].start >= 2

(***************************************************************************)
(* C11: right after construction and after every step() call, the rates    *)
(* get_last_lr() returns equal the rates written into the optimizer's      *)
(* groups, and both equal the evaluator's rates for the current step.       *)
(***************************************************************************)
C11_PublishedTracksCurrentStep ==
    Active =>
        /\ optimizer = self._last_lr
        /\ optimizer = LrAt(self.last_epoch)
        /\ returned # None => returned = optimizer

\* get_last_lr() called after several step() calls, inside the decay
C11_Witness ==
    /\ Active /\ nsteps > 2
    /\ returned # None
    /\ returned = optimizer
    /\ self.last_epoch > self.warmup_steps
    /\ \A g \in Group : /\ optimizer[g] > MinLrOf(g)
                        /\ optimizer[g] < self.base_lrs[g]

(***************************************************************************)
(* C12: each step() call increases the current step by exactly one and     *)
(* changes nothing else but the cached and published rates; get_last_lr()  *)
(* changes nothing of the scheduler or the optimizer; total_steps,         *)
(* warmup_steps, min_lr_ratio, base_lrs, min_lrs, the plateau windows and  *)
(* the segment table are the same before and after either call.             *)
(***************************************************************************)
C12_StepFrame ==
    [][ phase = "Active" =>
          /\ Configuration(self') = Configuration(self)
          /\ args' = args
          /\ nsteps' = nsteps + 1 => self'.last_epoch = self.last_epoch + 1
          /\ nsteps' = nsteps => (self' = self /\ optimizer' = optimizer) ]_vars

\* a scheduler with plateaus that has been stepped and queried
C12_Witness ==
    /\ Active /\ nsteps > 2
    /\ returned # None
    /\ args.plateau_steps # <<>>
    /\ self.last_epoch = args.last_epoch + nsteps
    /\ optimizer # self.base_lrs

C14_HeldRateOnGlobalCosine ==
    (Active /\ nsteps = 0) =>
        /\ Len(PlateauSegments) = Len(args.plateau_steps)
        /\ Len(self.plateau_regions) = Len(args.plateau_steps)
        /\ \A i \in 2..Len(self.plateau_regions) :
              self.plateau_regions[i - 1].start <= self.plateau_regions[i].start
        /\ \A i \in SortedWindow : \A g \in Group :
              PlateauSegments[i].lrs[g] =
                 IF EffectiveTrainingSteps <= 0
                 THEN MinLrOf(g)
                 ELSE GlobalCosine(g, ExcludedPosition(i), EffectiveTrainingSteps)

\* a table just compiled from two windows given in descending order of
\* start: the second in ascending order is moved back on the global cosine
\* by the first one's duration, and holds a rate strictly between the
\* floor and the base rate
C14_Witness ==
    /\ Active /\ nsteps = 0
    /\ Len(args.plateau_steps) = 2
    /\ args.plateau_steps[1][1] > args.plateau_steps[2][1]
    /\ EarlierDurations(1) > 0
    /\ EffectiveTrainingSteps > 0
    /\ self.plateau_regions[1].end <= self.plateau_regions[2].start
    /\ self.plateau_regions[2].end > self.plateau_regions[2].start
    /\ \A g \in Group : /\ PlateauSegments[2].lrs[g] > MinLrOf(g)
                        /\ PlateauSegments[2].lrs[g] < self.base_lrs[g]

(***************************************************************************)
(* C15: every group follows the same relative shape: for every step        *)
(* s >= 0 and any two groups i, j with base rates b_i, b_j,                *)
(* lr_i(s) * b_j = lr_j(s) * b_i, in the warm-up, cosine, plateau and      *)
(* post-end phases alike; the rates being rounded down to whole units,     *)
(* the two products agree to within the rounding of one rate.               *)
(***************************************************************************)
C15_SameRelativeShape ==
    (Active /\ self.last_epoch >= 0) =>
        \A i, j \in Group :
            Abs(optimizer[i] * self.base_lrs[j] - optimizer[j] * self.base_lrs[i])
               < RoundingSlack * Max(self.base_lrs[i], self.base_lrs[j])

\* two groups of different base rates on a cosine stretch after a
\* plateau, at rates strictly between their floors and their base rates
C15_Witness ==
    /\ Active /\ nsteps > 0
    /\ self.base_lrs[1] # self.base_lrs[2]
    /\ Len(self.plateau_regions) >= 1
    /\ Adjusted >= self.plateau_regions[1].end
    /\ Matching(self.segments, Adjusted) # {}
    /\ \A k \in Matching(self.segments, Adjusted) :
          self.segments[k].type = "cosine"
    /\ \A g \in Group : /\ optimizer[g] > MinLrOf(g)
                        /\ optimizer[g] < self.base_lrs[g]
    /\ optimizer[1] # optimizer[2]

(***************************************************************************)
(* C16 (as stated): for every accepted configuration's segment table and   *)
(* every adjusted step, the first-match linear scan selects the same       *)
(* segment, and so the same rate or the same min_lrs fallback, as a binary *)
(* search by segment start that picks the last segment with                *)
(* start <= adjusted and checks adjusted < end.                             *)
(***************************************************************************)
C16_LookupsAgreeAlways == Active => LookupsAgree

(***************************************************************************)
(* C16 (amended): the two lookups select the same segment and rate for     *)
(* every accepted configuration whose windows, in the order the compiler   *)
(* walks them, each start at or after the end of the window before.         *)
(***************************************************************************)
C16_LookupsAgreeWhenWindowsFollow ==
    (Active /\ WindowsFollow) => LookupsAgree

\* two windows that follow one another, the current step in a segment
\* past the first two of a table of four or more
C16_Witness ==
    /\ Active /\ nsteps > 0
    /\ WindowsFollow
    /\ Len(self.plateau_regions) = 2
    /\ Len(self.segments) >= 4
    /\ BinarySearch(self.segments, Adjusted) >= 3
    /\ LinearScan(self.segments, Adjusted) = BinarySearch(self.segments, Adjusted)
    /\ \A g \in Group : optimizer[g] > MinLrOf(g)

(***************************************************************************)
(* C17 (as stated): for every accepted configuration, overlapping windows  *)
(* included, along any run of step() calls the published rate of each      *)
(* group never rises once the warm-up phase is over: lr(s2) <= lr(s1) for  *)
(* all steps s1 < s2 with warmup_steps <= s1.                               *)
(***************************************************************************)
C17_DecayNeverRises == [][StepDoesNotRaise]_vars

(***************************************************************************)
(* C17 (amended): the published rate never rises after the warm-up for     *)
(* every accepted configuration whose windows, in the order the compiler   *)
(* walks them, each start at or after the end of the window before.         *)
(***************************************************************************)
C17_DecayNeverRisesWhenWindowsFollow ==
    [][(phase = "Active" /\ WindowsFollow) => StepDoesNotRaise]_vars

\* a run that has come down through a cosine stretch, a plateau and the
\* cosine stretch after it, the rate now strictly below the plateau's
C17_Witness ==
    /\ Active /\ nsteps > 2
    /\ args.last_epoch < args.warmup_steps
    /\ WindowsFollow
    /\ Len(self.plateau_regions) >= 1
    /\ self.plateau_regions[1].start > 0
    /\ Adjusted >= self.plateau_regions[1].end
    /\ \A g \in Group : /\ optimizer[g] < PlateauSegments[1].lrs[g]
                        /\ PlateauSegments[1].lrs[g] < self.base_lrs[g]
                        /\ optimizer[g] > MinLrOf(g)

(***************************************************************************)
(* C18: for every accepted configuration, if step() keeps being called,    *)
(* there is a point after which the published rate of every group equals   *)
(* its min_lr and stays equal to it on every later step.                    *)
(***************************************************************************)
C18_EventualFloor ==
    <>[](Active => (self.last_epoch >= self.total_steps /\ AtFloor))

\* a run stepped from the start through warm-up, a plateau above the floor
\* and past the end of the schedule, now at the floor, below the base rate
C18_Witness ==
    /\ Active
    /\ args.last_epoch = -1
    /\ args.warmup_steps > 0
    /\ Len(self.plateau_regions) >= 1
    /\ \A g \in Group : PlateauSegments[1].lrs[g] > MinLrOf(g)
    /\ self.last_epoch = self.total_steps + MaxOver
    /\ AtFloor
    /\ \A g \in Group : optimizer[g] < self.base_lrs[g]

====
